---- MODULE Spec2Model ----
(***************************************************************************)
(* A model of the chess-position preprocessing repository:                 *)
(*   - filter_balance_normalize_data and filter_balance_data_no_normalize  *)
(*     (the two balancing scripts), one action per step of the function;   *)
(*   - parse_evaluation and parse_fen (the row parsers of the pipeline).   *)
(* A DataFrame is a sequence of rows; a row is a function from column      *)
(* names to values, so adding and dropping a column changes its DOMAIN.    *)
(***************************************************************************)
EXTENDS Integers, Sequences, FiniteSets, TLC

VARIABLES
    pc,                          \* the statement the balancing function is at
    variant,                     \* which of the two scripts runs
    input_file,                  \* the CSV at input_file: NoFile, or File(rows)
    output_file,                 \* the CSV at output_file: NoFile, or File(rows)
    writes,                      \* number of to_csv calls made by the run
    min_move, max_move,          \* configuration (keyword arguments)
    eval_bin_size,
    min_positions_per_eval_bin,
    eval_capping_threshold,
    df,                          \* the locals of the function, empty before assignment
    df_filtered,
    df_checkmates,
    df_centipawns,
    min_primary_group_count,
    df_balanced_primary,
    bins,
    df_final_balanced,
    eval_string,                 \* parse_evaluation: the argument, the call's state
    eval_pc,
    eval_result,
    fen_string,                  \* parse_fen: the argument, the call's state
    fen_pc,
    fen_result,
    pipe_pc,                     \* process_chess_data: position in the function
    source,                      \* the input CSV behind input_file
    chunk_size,
    destination,                 \* the CSV behind output_file, line by line
    first_chunk,
    consumed,                    \* records the chunk reader has handed out
    chunk_index,                 \* i of enumerate
    chunk,
    processed_chunk

balanceVars == <<pc, variant, input_file, output_file, writes, min_move, max_move,
                 eval_bin_size, min_positions_per_eval_bin, eval_capping_threshold,
                 df, df_filtered, df_checkmates, df_centipawns,
                 min_primary_group_count, df_balanced_primary, bins,
                 df_final_balanced>>

parserVars == <<eval_string, eval_pc, eval_result>>
decoderVars == <<fen_string, fen_pc, fen_result>>

pipelineVars == <<pipe_pc, source, chunk_size, destination, first_chunk, consumed,
                  chunk_index, chunk, processed_chunk>>

vars == <<balanceVars, parserVars, decoderVars, pipelineVars>>

-----------------------------------------------------------------------------
(* Bounds of the model *)

MaxRows == 3
MaxTokenLen == 4
MaxRecords == 3

-----------------------------------------------------------------------------
(* Values *)

\* float('inf'), the start of the running minimum: above every row count
Inf == 2147483647

\* a missing value of the eval_bin column, and a present one
NaN == <<>>
Bin(b) == <<b>>

\* a path with no readable CSV behind it, and a CSV holding rows
NoFile == [exists |-> FALSE, rows |-> <<>>]
File(rows) == [exists |-> TRUE, rows |-> rows]

CheckmateValue == 20000

Variants == {"normalize", "no_normalize"}

\* evaluation values of the input rows: centipawns around zero and both sentinels
EvalValues == {-CheckmateValue, -3, -2, -1, 0, 1, 2, 3, CheckmateValue}
MoveValues == {1, 2, 3}
MinMoveValues == {2}
MaxMoveValues == {2}
BinSizeValues == {2}
TargetValues == {1, 2}
CapValues == {2}

\* the columns of the intermediate table: "squares" stands for the 64 cell
\* columns and "rights" for the castling, en-passant and halfmove columns
InputColumns == {"squares", "is_white_to_move", "is_black_to_move", "rights",
                 "fullmove_counter", "evaluation"}

\* the rows a table may hold: for each side, rows of the three outcomes
\* within the move range and the cap; rows outside the move range and rows
\* beyond the cap or at a sentinel come in one shape each
RowShapes ==
    {r \in [is_white_to_move : {0, 1}, fullmove_counter : MoveValues,
            evaluation : EvalValues] :
        \/ r.fullmove_counter = 2 /\ r.is_white_to_move = 0 /\ r.evaluation \in {-2, -1, 0, 1}
        \/ r.fullmove_counter = 2 /\ r.is_white_to_move = 1 /\ r.evaluation \in {-1, 0, 2}
        \/ r.fullmove_counter = 2 /\ r.is_white_to_move = 1 /\ r.evaluation \in {3, CheckmateValue}
        \/ r.fullmove_counter = 2 /\ r.is_white_to_move = 0 /\ r.evaluation \in {-3, -CheckmateValue}
        \/ r.fullmove_counter # 2 /\ r.is_white_to_move = 1 /\ r.evaluation = 1}

\* row number i of the input with shape s; squares differ from row to row
MkRow(i, s) ==
    [squares |-> i, is_white_to_move |-> s.is_white_to_move,
     is_black_to_move |-> 1 - s.is_white_to_move, rights |-> 0,
     fullmove_counter |-> s.fullmove_counter, evaluation |-> s.evaluation]

SeqsUpTo(S, n) == UNION {[1..k -> S] : k \in 0..n}

InputTables == {[i \in 1..Len(t) |-> MkRow(i, t[i])] : t \in SeqsUpTo(RowShapes, MaxRows)}

-----------------------------------------------------------------------------
(* pandas / numpy helpers *)

RECURSIVE Concat(_)
\* pd.concat of a sequence of DataFrames, followed by reset_index(drop=True)
Concat(dfs) == IF dfs = <<>> THEN <<>> ELSE Head(dfs) \o Concat(Tail(dfs))

\* DataFrame column assignment df[col] = value per row
WithColumn(r, col, v) == [c \in DOMAIN r \cup {col} |-> IF c = col THEN v ELSE r[c]]

\* no column dropped
DropColumn_Keep(table, col) == table

\* DataFrame.drop(columns=[col])
DropColumn(table, col) ==
    [i \in 1..Len(table) |-> [c \in DOMAIN table[i] \ {col} |-> table[i][c]]]

\* Python's // on integers with a positive divisor
FloorDiv(a, b) == a \div b

\* np.random.RandomState(42).permutation(n): the Mersenne Twister seeded with
\* 42, shuffled as the legacy generator does (positions counted from 0)
Permutation42(n) ==
    CASE n = 1 -> <<0>>
      [] n = 2 -> <<1, 0>>
      [] n = 3 -> <<0, 1, 2>>
      [] n = 4 -> <<1, 3, 0, 2>>
      [] n = 5 -> <<1, 4, 2, 0, 3>>
      [] n = 6 -> <<0, 1, 5, 2, 4, 3>>
      [] n = 7 -> <<0, 1, 5, 2, 4, 3, 6>>
      [] n = 8 -> <<1, 5, 0, 7, 2, 4, 3, 6>>

\* the first n rows, no permutation
Sample_Head(table, n) == SubSeq(table, 1, n)

\* DataFrame.sample(n=n, random_state=42): without replacement, the first n
\* positions of the seeded permutation of the frame's length
Sample(table, n) == [i \in 1..n |-> table[Permutation42(Len(table))[i] + 1]]

SeqMin(table) == CHOOSE v \in {table[i].evaluation : i \in DOMAIN table} :
                    \A i \in DOMAIN table : v <= table[i].evaluation
SeqMax(table) == CHOOSE v \in {table[i].evaluation : i \in DOMAIN table} :
                    \A i \in DOMAIN table : v >= table[i].evaluation

-----------------------------------------------------------------------------
(* IEEE-754 binary64 arithmetic, as numpy computes the scaler's float arrays. *)
(* A number is [neg, m, e]: sign, the digits of a natural number in base      *)
(* 2^15 (lowest digit first, no zero digit at either end) and an exponent,    *)
(* value = (+/-) m * Base^e. Exponents stay far from the overflow and         *)
(* subnormal ranges for the evaluations of a table.                           *)

\* significand bits of a float64
Precision == 53

LimbBits == 5 * 3
Base == 2 ^ LimbBits

FZero == [neg |-> FALSE, m |-> <<>>, e |-> 0]

RECURSIVE Limbs(_)
Limbs(n) == IF n = 0 THEN <<>> ELSE <<n % Base>> \o Limbs(n \div Base)

\* number of bits of a digit
BitLen(d) == CHOOSE j \in 0..LimbBits : d < 2 ^ j /\ (j = 0 \/ d >= 2 ^ (j - 1))

SetMax(S) == CHOOSE x \in S : \A y \in S : y <= x
SetMin(S) == CHOOSE x \in S : \A y \in S : x <= y
NonZero(m) == {i \in DOMAIN m : m[i] # 0}

\* the number without its high zero digits and its low zero digits
Canon(neg, m, e) ==
    IF NonZero(m) = {} THEN FZero
    ELSE [neg |-> neg, m |-> SubSeq(m, SetMin(NonZero(m)), SetMax(NonZero(m))),
          e |-> e + SetMin(NonZero(m)) - 1]

RECURSIVE AddRec(_, _, _)
AddRec(a, b, carry) ==
    IF a = <<>> /\ b = <<>> THEN (IF carry = 0 THEN <<>> ELSE <<carry>>)
    ELSE LET t == (IF a = <<>> THEN 0 ELSE Head(a)) + (IF b = <<>> THEN 0 ELSE Head(b)) + carry
         IN  <<t % Base>> \o AddRec(IF a = <<>> THEN <<>> ELSE Tail(a),
                                    IF b = <<>> THEN <<>> ELSE Tail(b), t \div Base)

NatAdd(a, b) == AddRec(a, b, 0)

\* a - b for a >= b: a plus the complement of b plus one, the carry dropped
NatSub(a, b) ==
    SubSeq(AddRec(a, [i \in 1..Len(a) |-> Base - 1 - (IF i <= Len(b) THEN b[i] ELSE 0)], 1),
           1, Len(a))

\* a < b for digit sequences without high zeros
NatLess(a, b) ==
    \/ Len(a) < Len(b)
    \/ /\ Len(a) = Len(b)
       /\ \E i \in DOMAIN a : a[i] < b[i] /\ \A j \in (i + 1)..Len(a) : a[j] = b[j]

RECURSIVE MulDigit(_, _, _)
\* a times one digit d, plus carry
MulDigit(a, d, carry) ==
    IF a = <<>> THEN (IF carry = 0 THEN <<>> ELSE <<carry>>)
    ELSE <<(Head(a) * d + carry) % Base>>
         \o MulDigit(Tail(a), d, (Head(a) * d + carry) \div Base)

ShiftLeft(m, k) == [i \in 1..k |-> 0] \o m

RECURSIVE MulRec(_, _, _)
MulRec(a, b, k) ==
    IF k > Len(b) THEN <<>>
    ELSE NatAdd(ShiftLeft(MulDigit(a, b[k], 0), k - 1), MulRec(a, b, k + 1))

NatMul(a, b) == MulRec(a, b, 1)

FromInt(n) == Canon(n < 0, Limbs(IF n < 0 THEN -n ELSE n), 0)

FNeg(x) == IF x.m = <<>> THEN x ELSE [x EXCEPT !.neg = ~x.neg]

\* the exact sum and product of two numbers
ExactAdd(x, y) ==
    LET e == IF x.e < y.e THEN x.e ELSE y.e
        a == ShiftLeft(x.m, x.e - e)
        b == ShiftLeft(y.m, y.e - e)
    IN  IF x.m = <<>> THEN y
        ELSE IF y.m = <<>> THEN x
        ELSE IF x.neg = y.neg THEN Canon(x.neg, NatAdd(a, b), e)
        ELSE IF NatLess(a, b) THEN Canon(y.neg, NatSub(b, a), e)
        ELSE Canon(x.neg, NatSub(a, b), e)

ExactMul(x, y) == Canon(x.neg # y.neg, NatMul(x.m, y.m), x.e + y.e)

\* round to nearest, ties to even, at Precision significant bits: drop is the
\* number of low bits to lose, q whole digits and o bits of digit q + 1
Round(x) ==
    LET m == x.m
        drop == LimbBits * (Len(m) - 1) + BitLen(m[Len(m)]) - Precision
        q == drop \div LimbBits
        o == drop % LimbBits
        guard == IF o > 0 THEN (m[q + 1] \div (2 ^ (o - 1))) % 2
                 ELSE (m[q] \div (2 ^ (LimbBits - 1))) % 2
        sticky == IF o > 0
                  THEN (m[q + 1] % (2 ^ (o - 1))) # 0 \/ \E i \in 1..q : m[i] # 0
                  ELSE (m[q] % (2 ^ (LimbBits - 1))) # 0 \/ \E i \in 1..(q - 1) : m[i] # 0
        keep == [i \in 1..(Len(m) - q) |->
                    IF i = 1 THEN m[q + 1] - (m[q + 1] % (2 ^ o)) ELSE m[q + i]]
        odd == (m[q + 1] \div (2 ^ o)) % 2 = 1
        up == guard = 1 /\ (sticky \/ odd)
    IN  IF m = <<>> \/ drop <= 0 THEN x
        ELSE Canon(x.neg, IF up THEN NatAdd(keep, <<2 ^ o>>) ELSE keep, x.e + q)

FAdd(x, y) == Round(ExactAdd(x, y))
FSub(x, y) == Round(ExactAdd(x, FNeg(y)))
FMul(x, y) == Round(ExactMul(x, y))

RECURSIVE FracLimbs(_, _, _)
\* the next n digits of rem / b after the point, lowest first, for rem < b
FracLimbs(rem, b, n) ==
    IF n = 0 THEN <<>>
    ELSE FracLimbs((rem * Base) % b, b, n - 1) \o <<(rem * Base) \div b>>

RECURSIVE FracRem(_, _, _)
FracRem(rem, b, n) == IF n = 0 THEN rem ELSE FracRem((rem * Base) % b, b, n - 1)

\* float64 division a / b of two positive integers (b below 2^16): the
\* quotient to more bits than the precision, a sticky digit for the
\* remainder, then rounded
FDivInt(a, b) ==
    LET n == 6
        sticky == IF FracRem(a % b, b, n) = 0 THEN 0 ELSE 1
    IN  Round(Canon(FALSE, <<sticky>> \o FracLimbs(a % b, b, n) \o Limbs(a \div b), -(n + 1)))

\* x < y and x <= y
FLess(x, y) == LET d == ExactAdd(x, FNeg(y)) IN d.neg /\ d.m # <<>>
FLeq(x, y) == ~FLess(y, x)
FAbs(x) == [x EXCEPT !.neg = FALSE]

\* sklearn.preprocessing.MinMaxScaler(feature_range=(-1, 1)).fit_transform on
\* one column with minimum lo and maximum hi, applied to x:
\*   data_range = data_max - data_min, a zero range replaced by 1.0
\*   scale_ = (1 - (-1)) / data_range ;  min_ = -1 - data_min * scale_
\*   X *= scale_ ; X += min_
ScalerRange(lo, hi) == IF hi - lo = 0 THEN 1 ELSE hi - lo
\* scale_ for a feature range of width 1
ScalerScale_Unit(lo, hi) == FDivInt(1, ScalerRange(lo, hi))
ScalerScale(lo, hi) == FDivInt(1 - (-1), ScalerRange(lo, hi))
\* min_ without the lower end of the feature range
ScalerMin_NoOffset(lo, hi) == FNeg(FMul(FromInt(lo), ScalerScale(lo, hi)))
ScalerMin(lo, hi) == FSub(FromInt(-1), FMul(FromInt(lo), ScalerScale(lo, hi)))
MinMaxScale(x, lo, hi) == FAdd(FMul(FromInt(x), ScalerScale(lo, hi)), ScalerMin(lo, hi))

-----------------------------------------------------------------------------
(* Steps 4 and 5 of the balancing functions *)

WinLossCategory(evaluation) ==
    IF evaluation > 0 THEN "white_winning"
    ELSE IF evaluation < 0 THEN "black_winning"
    ELSE "neutral"

\* the keys of groupby(['is_white_to_move', 'win_loss_category']) in the sorted
\* order in which pandas iterates them
GroupKeys == << <<0, "black_winning">>, <<0, "neutral">>, <<0, "white_winning">>,
               <<1, "black_winning">>, <<1, "neutral">>, <<1, "white_winning">> >>

GroupOf(table, key) ==
    SelectSeq(table, LAMBDA r : r.is_white_to_move = key[1] /\ r.win_loss_category = key[2])

\* the groups the groupby object yields: one per key that occurs in the table
Grouped(table) ==
    SelectSeq([k \in 1..Len(GroupKeys) |-> GroupOf(table, GroupKeys[k])],
              LAMBDA g : g # <<>>)

RECURSIVE MinGroupLoop(_, _)
\* the first loop over grouped: the running minimum of len(group)
MinGroupLoop(groups, acc) ==
    IF groups = <<>> THEN acc
    ELSE MinGroupLoop(Tail(groups),
                      IF Len(Head(groups)) < acc THEN Len(Head(groups)) ELSE acc)

\* the second loop without its sampling branch
BalanceGroup_Whole(group, count) == group

\* the second loop sampling every group
BalanceGroup_Resampling(group, count) == Sample(group, count)

\* the second loop over grouped: sample the larger groups, keep the others
BalanceGroup(group, count) ==
    IF Len(group) > count THEN Sample(group, count) ELSE group

\* np.arange(start, stop, step) for step > 0
Arange(start, stop, step) ==
    [i \in 1..((stop - start + step - 1) \div step) |-> start + (i - 1) * step]

BinEdges(lo, hi, size) ==
    Arange(FloorDiv(lo, size) * size, FloorDiv(hi, size) * size + size, size)

\* pd.cut(x, bins=edges, labels=False, include_lowest=True, right=False) for
\* one value: searchsorted(side='right') counts the edges <= x; a value below
\* the first edge or at or above the last edge gets no bin
Cut(x, edges) ==
    LET ids == Cardinality({k \in DOMAIN edges : edges[k] <= x})
    IN  IF ids = 0 \/ ids = Len(edges) THEN NaN ELSE Bin(ids - 1)

BinCount(table, b) == Cardinality({i \in DOMAIN table : table[i].eval_bin = Bin(b)})
FirstRow(table, b) == CHOOSE i \in DOMAIN table :
                         /\ table[i].eval_bin = Bin(b)
                         /\ \A j \in 1..(i - 1) : table[j].eval_bin # Bin(b)

\* Series.value_counts(): the index of the result, the bins that occur (NaN
\* dropped), most frequent first, equal counts in order of first appearance
ValueCountsIndex(table) ==
    LET labels == {table[i].eval_bin[1] : i \in {j \in DOMAIN table : table[j].eval_bin # NaN}}
        Before(a, b) == \/ BinCount(table, a) > BinCount(table, b)
                        \/ /\ BinCount(table, a) = BinCount(table, b)
                           /\ FirstRow(table, a) < FirstRow(table, b)
        Rank(b) == 1 + Cardinality({a \in labels : Before(a, b)})
    IN  [k \in 1..Cardinality(labels) |-> CHOOSE b \in labels : Rank(b) = k]

-----------------------------------------------------------------------------
(* The balancing functions, statement by statement *)

BalanceInit ==
    /\ pc = "start"
    /\ variant \in Variants
    /\ input_file \in {NoFile} \cup {File(t) : t \in InputTables}
    /\ output_file = NoFile
    /\ writes = 0
    /\ min_move \in MinMoveValues
    /\ max_move \in MaxMoveValues
    /\ eval_bin_size \in BinSizeValues
    /\ min_positions_per_eval_bin \in TargetValues
    /\ eval_capping_threshold \in CapValues
    /\ df = <<>>
    /\ df_filtered = <<>>
    /\ df_checkmates = <<>>
    /\ df_centipawns = <<>>
    /\ min_primary_group_count = Inf
    /\ df_balanced_primary = <<>>
    /\ bins = <<>>
    /\ df_final_balanced = <<>>

\* Step 1: pd.read_csv inside try/except; any failure prints and returns
LoadData ==
    /\ pc = "start"
    /\ IF input_file.exists
       THEN df' = input_file.rows /\ pc' = "filter_move"
       ELSE df' = df /\ pc' = "exit"
    /\ UNCHANGED <<parserVars, decoderVars, pipelineVars, variant, input_file, output_file, writes, min_move, max_move,
                   eval_bin_size, min_positions_per_eval_bin, eval_capping_threshold,
                   df_filtered, df_checkmates, df_centipawns,
                   min_primary_group_count, df_balanced_primary, bins,
                   df_final_balanced>>

InMoveRange(r, lo, hi) == r.fullmove_counter >= lo /\ r.fullmove_counter <= hi

\* Step 2: the fullmove_counter filter and its empty check
FilterByMove ==
    /\ pc = "filter_move"
    /\ df_filtered' = SelectSeq(df, LAMBDA r : InMoveRange(r, min_move, max_move))
    /\ pc' = IF df_filtered' = <<>> THEN "exit" ELSE "separate"
    /\ UNCHANGED <<parserVars, decoderVars, pipelineVars, variant, input_file, output_file, writes, min_move, max_move,
                   eval_bin_size, min_positions_per_eval_bin, eval_capping_threshold,
                   df, df_checkmates, df_centipawns,
                   min_primary_group_count, df_balanced_primary, bins,
                   df_final_balanced>>

IsCheckmate(r) == r.evaluation = CheckmateValue \/ r.evaluation = -CheckmateValue
IsCentipawn(r) == r.evaluation # CheckmateValue /\ r.evaluation # -CheckmateValue

\* Step 3: the split into checkmate rows and centipawn rows
SeparateCheckmates ==
    /\ pc = "separate"
    /\ df_checkmates' = SelectSeq(df_filtered, IsCheckmate)
    /\ df_centipawns' = SelectSeq(df_filtered, IsCentipawn)
    /\ pc' = IF df_centipawns' = <<>> THEN "exit"
             ELSE IF variant = "normalize" THEN "cap" ELSE "balance_primary"
    /\ UNCHANGED <<parserVars, decoderVars, pipelineVars, variant, input_file, output_file, writes, min_move, max_move,
                   eval_bin_size, min_positions_per_eval_bin, eval_capping_threshold,
                   df, df_filtered,
                   min_primary_group_count, df_balanced_primary, bins,
                   df_final_balanced>>

\* no cap
WithinCap_Off(r, cap) == TRUE

WithinCap(r, cap) == r.evaluation >= -cap /\ r.evaluation <= cap

\* the extreme-evaluation filter writing an empty output before its return
FilterExtreme_Writing ==
    /\ pc = "cap"
    /\ df_centipawns' = SelectSeq(df_centipawns, LAMBDA r : WithinCap(r, eval_capping_threshold))
    /\ pc' = IF df_centipawns' = <<>> THEN "exit" ELSE "balance_primary"
    /\ output_file' = IF df_centipawns' = <<>> THEN File(<<>>) ELSE output_file
    /\ writes' = IF df_centipawns' = <<>> THEN writes + 1 ELSE writes
    /\ UNCHANGED <<parserVars, decoderVars, pipelineVars, variant, input_file, min_move, max_move,
                   eval_bin_size, min_positions_per_eval_bin, eval_capping_threshold,
                   df, df_filtered, df_checkmates,
                   min_primary_group_count, df_balanced_primary, bins,
                   df_final_balanced>>

\* The extreme-evaluation filter (the normalizing script only)
FilterExtreme ==
    /\ pc = "cap"
    /\ df_centipawns' = SelectSeq(df_centipawns, LAMBDA r : WithinCap(r, eval_capping_threshold))
    /\ pc' = IF df_centipawns' = <<>> THEN "exit" ELSE "balance_primary"
    /\ UNCHANGED <<parserVars, decoderVars, pipelineVars, variant, input_file, output_file, writes, min_move, max_move,
                   eval_bin_size, min_positions_per_eval_bin, eval_capping_threshold,
                   df, df_filtered, df_checkmates,
                   min_primary_group_count, df_balanced_primary, bins,
                   df_final_balanced>>

\* df_centipawns with the win_loss_category column set
Categorized(table) ==
    [i \in 1..Len(table) |->
        WithColumn(table[i], "win_loss_category", WinLossCategory(table[i].evaluation))]

\* the concatenation of the balanced groups, win_loss_category dropped
BalancedPrimary(table, count) ==
    LET grouped == Grouped(table)
    IN  DropColumn(Concat([k \in 1..Len(grouped) |-> BalanceGroup(grouped[k], count)]),
                   "win_loss_category")

\* Step 4: categorize, find the smallest group, return if it is 0, downsample
BalancePrimary ==
    /\ pc = "balance_primary"
    /\ df_centipawns' = Categorized(df_centipawns)
    /\ min_primary_group_count' = MinGroupLoop(Grouped(df_centipawns'), Inf)
    /\ IF min_primary_group_count' = 0
       THEN /\ pc' = "exit"
            /\ UNCHANGED df_balanced_primary
       ELSE /\ pc' = "balance_bins"
            /\ df_balanced_primary' = BalancedPrimary(df_centipawns', min_primary_group_count')
    /\ UNCHANGED <<parserVars, decoderVars, pipelineVars, variant, input_file, output_file, writes, min_move, max_move,
                   eval_bin_size, min_positions_per_eval_bin, eval_capping_threshold,
                   df, df_filtered, df_checkmates, bins,
                   df_final_balanced>>

\* df_balanced_primary with the eval_bin column set
Binned(table, edges) ==
    [i \in 1..Len(table) |-> WithColumn(table[i], "eval_bin", Cut(table[i].evaluation, edges))]

BalanceBin(table, b, target) ==
    LET bin_df == SelectSeq(table, LAMBDA r : r.eval_bin = Bin(b))
    IN  IF Len(bin_df) > target THEN Sample(bin_df, target) ELSE bin_df

\* the concatenation of the balanced bins, eval_bin dropped
FinalBalanced(table, target) ==
    LET index == ValueCountsIndex(table)
    IN  DropColumn(Concat([k \in 1..Len(index) |-> BalanceBin(table, index[k], target)]),
                   "eval_bin")

\* Step 5: bin edges, pd.cut, value_counts, return if no bin, downsample
BalanceBins ==
    /\ pc = "balance_bins"
    /\ bins' = BinEdges(SeqMin(df_balanced_primary), SeqMax(df_balanced_primary), eval_bin_size)
    /\ df_balanced_primary' = Binned(df_balanced_primary, bins')
    /\ IF ValueCountsIndex(df_balanced_primary') = <<>>
       THEN /\ pc' = "exit"
            /\ UNCHANGED df_final_balanced
       ELSE /\ pc' = IF variant = "normalize" THEN "normalize" ELSE "save"
            /\ df_final_balanced' = FinalBalanced(df_balanced_primary', min_positions_per_eval_bin)
    /\ UNCHANGED <<parserVars, decoderVars, pipelineVars, variant, input_file, output_file, writes, min_move, max_move,
                   eval_bin_size, min_positions_per_eval_bin, eval_capping_threshold,
                   df, df_filtered, df_checkmates, df_centipawns,
                   min_primary_group_count>>

\* Step 6 (the normalizing script only): the evaluation_normalized column
Normalized(table) ==
    [i \in 1..Len(table) |->
        WithColumn(table[i], "evaluation_normalized",
                   MinMaxScale(table[i].evaluation, SeqMin(table), SeqMax(table)))]

Normalize ==
    /\ pc = "normalize"
    /\ df_final_balanced' = Normalized(df_final_balanced)
    /\ pc' = "save"
    /\ UNCHANGED <<parserVars, decoderVars, pipelineVars, variant, input_file, output_file, writes, min_move, max_move,
                   eval_bin_size, min_positions_per_eval_bin, eval_capping_threshold,
                   df, df_filtered, df_checkmates, df_centipawns,
                   min_primary_group_count, df_balanced_primary, bins>>

\* df_final_balanced.to_csv(output_file, index=False)
Save ==
    /\ pc = "save"
    /\ output_file' = File(df_final_balanced)
    /\ writes' = writes + 1
    /\ pc' = "done"
    /\ UNCHANGED <<parserVars, decoderVars, pipelineVars, variant, input_file, min_move, max_move,
                   eval_bin_size, min_positions_per_eval_bin, eval_capping_threshold,
                   df, df_filtered, df_checkmates, df_centipawns,
                   min_primary_group_count, df_balanced_primary, bins,
                   df_final_balanced>>

BalanceIdle ==
    /\ pc = "idle"
    /\ variant = "normalize"
    /\ input_file = NoFile
    /\ output_file = NoFile
    /\ writes = 0
    /\ min_move = 0
    /\ max_move = 0
    /\ eval_bin_size = 1
    /\ min_positions_per_eval_bin = 1
    /\ eval_capping_threshold = 0
    /\ df = <<>>
    /\ df_filtered = <<>>
    /\ df_checkmates = <<>>
    /\ df_centipawns = <<>>
    /\ min_primary_group_count = Inf
    /\ df_balanced_primary = <<>>
    /\ bins = <<>>
    /\ df_final_balanced = <<>>

-----------------------------------------------------------------------------
(* parse_evaluation: a token is a sequence of characters *)

Digits == <<"0", "1", "2", "3", "4", "5", "6", "7", "8", "9">>
IsDigit(c) == \E d \in DOMAIN Digits : Digits[d] = c
DigitValue(c) == (CHOOSE d \in DOMAIN Digits : Digits[d] = c) - 1
IsSpace(c) == c = " "

\* str.strip(): without the whitespace at both ends
Strip(str) ==
    LET solid == {i \in DOMAIN str : ~IsSpace(str[i])}
    IN  IF solid = {} THEN <<>>
        ELSE SubSeq(str, SetMin(solid), SetMax(solid))

\* equality in place of the prefix test
StartsWith_Whole(str, prefix) == str = prefix

\* str.startswith(prefix)
StartsWith(str, prefix) ==
    Len(str) >= Len(prefix) /\ SubSeq(str, 1, Len(prefix)) = prefix

\* int(str) accepts: an optional sign, then digits, single underscores allowed
\* between digits (whitespace around the literal is stripped first)
IntLiteralBody(body) ==
    /\ body # <<>>
    /\ \A i \in DOMAIN body : IsDigit(body[i]) \/ body[i] = "_"
    /\ IsDigit(body[1]) /\ IsDigit(body[Len(body)])
    /\ \A i \in 1..(Len(body) - 1) : ~(body[i] = "_" /\ body[i + 1] = "_")

Unsigned(str) == IF str # <<>> /\ Head(str) \in {"+", "-"} THEN Tail(str) ELSE str

RECURSIVE DigitsValue(_, _)
DigitsValue(body, acc) ==
    IF body = <<>> THEN acc
    ELSE DigitsValue(Tail(body),
                     IF Head(body) = "_" THEN acc ELSE 10 * acc + DigitValue(Head(body)))

\* int(str): the value, or ValueError
PyInt(str) ==
    LET t == Strip(str)
    IN  IF IntLiteralBody(Unsigned(t))
        THEN [error |-> "none",
              value |-> IF Head(t) = "-" THEN -DigitsValue(Unsigned(t), 0)
                        ELSE DigitsValue(Unsigned(t), 0)]
        ELSE [error |-> "ValueError", value |-> 0]

\* what a call of parse_evaluation does: the exception it lets through (none
\* is possible here), the value it returns and whether it printed a warning
parse_evaluation(token) ==
    LET str == Strip(token)
    IN  IF StartsWith(str, <<"#">>)
        THEN IF StartsWith(str, <<"#", "+">>)
             THEN [raised |-> "none", value |-> CheckmateValue, warning |-> FALSE]
             ELSE IF StartsWith(str, <<"#", "-">>)
             THEN [raised |-> "none", value |-> -CheckmateValue, warning |-> FALSE]
             ELSE [raised |-> "none", value |-> 0, warning |-> TRUE]
        ELSE IF PyInt(str).error = "none"
             THEN [raised |-> "none", value |-> PyInt(str).value, warning |-> FALSE]
             ELSE [raised |-> "none", value |-> 0, warning |-> TRUE]

TokenChars == {"#", "+", "-", "0", "1", "7", " ", "_", "x"}

\* the decimal spellings of the two values the checkmate branches return
SentinelTokens == {<<"2", "0", "0", "0", "0">>, <<"-", "2", "0", "0", "0", "0">>}

Tokens == SeqsUpTo(TokenChars, MaxTokenLen) \cup SentinelTokens

NoResult == [raised |-> "none", value |-> 0, warning |-> FALSE]

ParserInit ==
    /\ eval_string \in Tokens
    /\ eval_pc = "call"
    /\ eval_result = NoResult

ParserIdle ==
    /\ eval_string = <<>>
    /\ eval_pc = "idle"
    /\ eval_result = NoResult

ParseEvaluation ==
    /\ eval_pc = "call"
    /\ eval_result' = parse_evaluation(eval_string)
    /\ eval_pc' = "returned"
    /\ UNCHANGED <<eval_string, balanceVars, decoderVars, pipelineVars>>

-----------------------------------------------------------------------------
(* parse_fen: chess.Board(fen_string) is the python-chess library; a          *)
(* description is given by what the library makes of it: a Board, or the      *)
(* ValueError it raises for an invalid FEN string                             *)

WHITE == TRUE
BLACK == FALSE

SQUARES == 0..63

PIECE_MAPPING ==
    [s \in {"P", "N", "B", "R", "Q", "K", "p", "n", "b", "r", "q", "k"} |->
        CASE s = "P" -> 1 [] s = "N" -> 2 [] s = "B" -> 3
          [] s = "R" -> 4 [] s = "Q" -> 5 [] s = "K" -> 6
          [] s = "p" -> -1 [] s = "n" -> -2 [] s = "b" -> -3
          [] s = "r" -> -4 [] s = "q" -> -5 [] s = "k" -> -6]

\* dict.get(key, default)
Get(dict, key, default) == IF key \in DOMAIN dict THEN dict[key] ELSE default

\* None, and a piece or a square
None == <<>>
Some(x) == <<x>>

\* piece placements of the descriptions: the empty board, two bare kings,
\* and the back ranks and pawns of the starting position
BackRank == <<"R", "N", "B", "Q", "K", "B", "N", "R">>
LowerCase(s) == CASE s = "R" -> "r" [] s = "N" -> "n" [] s = "B" -> "b"
                  [] s = "Q" -> "q" [] s = "K" -> "k" [] s = "P" -> "p"
EmptyPlacement == [i \in SQUARES |-> None]
KingsPlacement == [i \in SQUARES |-> IF i = 4 THEN Some("K")
                                     ELSE IF i = 60 THEN Some("k") ELSE None]
StartPlacement ==
    [i \in SQUARES |->
        IF i < 8 THEN Some(BackRank[i + 1])
        ELSE IF i < 16 THEN Some("P")
        ELSE IF i >= 56 THEN Some(LowerCase(BackRank[i - 55]))
        ELSE IF i >= 48 THEN Some("p")
        ELSE None]
Placements == {EmptyPlacement, KingsPlacement, StartPlacement}

Boards == [piece_at : Placements, turn : {WHITE, BLACK},
           kingside_white : BOOLEAN, queenside_white : BOOLEAN,
           kingside_black : BOOLEAN, queenside_black : BOOLEAN,
           ep_square : {None, Some(20), Some(44)},
           halfmove_clock : {0, 3}, fullmove_number : {1, 12}]

\* the descriptions: invalid FEN strings, and one valid string per board
Descriptions == {[valid |-> FALSE, board |-> <<>>]} \cup
                {[valid |-> TRUE, board |-> b] : b \in Boards}

\* a missing cell as pandas hands it on: the float NaN
MissingValue == [missing |-> TRUE]

\* chess.Board(fen_string): for a string the board or ValueError; for NaN
\* the AttributeError of fen.split()
ChessBoard(description) ==
    IF description = MissingValue THEN [raised |-> "AttributeError", board |-> <<>>]
    ELSE IF description.valid THEN [raised |-> "none", board |-> description.board]
    ELSE [raised |-> "ValueError", board |-> <<>>]

\* the loop over chess.SQUARES that fills board_state
BoardState(board) ==
    [i \in 1..64 |->
        IF board.piece_at[i - 1] # None
        THEN Get(PIECE_MAPPING, board.piece_at[i - 1][1], 0)
        ELSE 0]

Flag(b) == IF b THEN 1 ELSE 0

\* the cells without the nine flags and counters
DefaultVector_Cells == [i \in 1..64 |-> 0]

\* the vector returned for an invalid string
DefaultVector == [i \in 1..64 |-> 0] \o <<0, 0, 0, 0, 0, 0, 0, 0, 0>>

\* what a call of parse_fen does: the exception it lets through, the list it
\* returns and whether it printed a warning
parse_fen(description) ==
    LET made == ChessBoard(description)
        board == made.board
    IN  IF made.raised = "ValueError"
        THEN [raised |-> "none", value |-> DefaultVector, warning |-> TRUE]
        ELSE IF made.raised # "none"
        THEN [raised |-> made.raised, value |-> <<>>, warning |-> FALSE]
        ELSE [raised |-> "none",
              value |-> BoardState(board) \o
                        <<Flag(board.turn = WHITE), Flag(board.turn = BLACK),
                          Flag(board.kingside_white), Flag(board.queenside_white),
                          Flag(board.kingside_black), Flag(board.queenside_black),
                          Flag(board.ep_square # None),
                          board.halfmove_clock,
                          board.fullmove_number>>,
              warning |-> FALSE]

NoVector == [raised |-> "none", value |-> <<>>, warning |-> FALSE]

DecoderInit ==
    /\ fen_string \in Descriptions
    /\ fen_pc = "call"
    /\ fen_result = NoVector

DecoderIdle ==
    /\ fen_string = [valid |-> FALSE, board |-> <<>>]
    /\ fen_pc = "idle"
    /\ fen_result = NoVector

ParseFen ==
    /\ fen_pc = "call"
    /\ fen_result' = parse_fen(fen_string)
    /\ fen_pc' = "returned"
    /\ UNCHANGED <<fen_string, balanceVars, parserVars, pipelineVars>>

-----------------------------------------------------------------------------
(* process_chess_data: the CSV is read in chunks, each chunk is transformed  *)
(* and written before the next one is read                                   *)

FileNames == <<"a", "b", "c", "d", "e", "f", "g", "h">>
RankNames == <<"1", "2", "3", "4", "5", "6", "7", "8">>

\* chess.square_name(i) for the squares in the order of chess.SQUARES
SQUARE_COLUMNS == [i \in 1..64 |-> FileNames[((i - 1) % 8) + 1] \o RankNames[((i - 1) \div 8) + 1]]

OUTPUT_COLUMNS ==
    SQUARE_COLUMNS \o
    <<"is_white_to_move", "is_black_to_move",
      "white_kingside_castling", "white_queenside_castling",
      "black_kingside_castling", "black_queenside_castling",
      "en_passant_available",
      "halfmove_clock",
      "fullmove_counter",
      "evaluation">>

\* a line of the output CSV: the header or a data row
HeaderLine == [header |-> TRUE, values |-> OUTPUT_COLUMNS]
DataLine(values) == [header |-> FALSE, values |-> values]

\* the empty FEN field of a record, and two valid and one invalid description
EmptyFen == [empty |-> TRUE]
InvalidFen == [valid |-> FALSE, board |-> <<>>]
StartFen ==
    [valid |-> TRUE,
     board |-> [piece_at |-> StartPlacement, turn |-> WHITE,
                kingside_white |-> TRUE, queenside_white |-> TRUE,
                kingside_black |-> TRUE, queenside_black |-> TRUE,
                ep_square |-> None, halfmove_clock |-> 0, fullmove_number |-> 1]]
KingsFen ==
    [valid |-> TRUE,
     board |-> [piece_at |-> KingsPlacement, turn |-> BLACK,
                kingside_white |-> FALSE, queenside_white |-> FALSE,
                kingside_black |-> FALSE, queenside_black |-> FALSE,
                ep_square |-> None, halfmove_clock |-> 3, fullmove_number |-> 12]]

\* the records of the input: FEN field and Evaluation field as written in
\* the CSV (the Evaluation field character by character)
RecordShapes ==
    {[FEN |-> StartFen, Evaluation |-> <<"1", "7">>],
     [FEN |-> KingsFen, Evaluation |-> <<"-", "3">>],
     [FEN |-> StartFen, Evaluation |-> <<"#", "+", "2">>],
     [FEN |-> KingsFen, Evaluation |-> <<"#", "-", "1">>],
     [FEN |-> InvalidFen, Evaluation |-> <<"1", "7">>],
     [FEN |-> KingsFen, Evaluation |-> <<"x">>],
     [FEN |-> StartFen, Evaluation |-> <<>>],
     [FEN |-> EmptyFen, Evaluation |-> <<"-", "3">>]}

InputRecords == SeqsUpTo(RecordShapes, MaxRecords)
ChunkSizes == {1, 2}

\* a file left at the destination by an earlier run
StaleFile == File(<<DataLine(<<0>>)>>)

\* the values of a column after read_csv: Python ints, floats (NaN among
\* them) and strings
IntValue(n) == [type |-> "int", number |-> n, text |-> <<>>]
FloatValue(n) == [type |-> "float", number |-> n, text |-> <<>>]
NaNValue == [type |-> "nan", number |-> 0, text |-> <<>>]
StrValue(text) == [type |-> "str", number |-> 0, text |-> text]

\* a field the CSV parser reads as an integer: digits after an optional sign
CsvInteger(field) ==
    Unsigned(field) # <<>> /\ \A i \in DOMAIN Unsigned(field) : IsDigit(Unsigned(field)[i])

\* the Evaluation column of a chunk: int64 when every field is an integer,
\* float64 when the fields are integers and empty fields (NaN), else object:
\* the fields as strings and NaN for the empty ones
EvaluationColumn(fields) ==
    LET integers == \A i \in DOMAIN fields : CsvInteger(fields[i])
        numeric == \A i \in DOMAIN fields : CsvInteger(fields[i]) \/ fields[i] = <<>>
    IN  [i \in DOMAIN fields |->
            IF integers THEN IntValue(PyInt(fields[i]).value)
            ELSE IF fields[i] = <<>> THEN NaNValue
            ELSE IF numeric THEN FloatValue(PyInt(fields[i]).value)
            ELSE StrValue(fields[i])]

\* the FEN column of a chunk: strings, NaN for the empty fields
FenColumn(fields) ==
    [i \in DOMAIN fields |-> IF fields[i] = EmptyFen THEN MissingValue ELSE fields[i]]

RECURSIVE NatToStr(_)
NatToStr(n) == IF n < 10 THEN <<Digits[n + 1]>>
               ELSE NatToStr(n \div 10) \o <<Digits[(n % 10) + 1]>>

\* str(value), the first thing parse_evaluation does with its argument
Str(value) ==
    CASE value.type = "str" -> value.text
      [] value.type = "nan" -> <<"n", "a", "n">>
      [] value.type = "int" ->
            IF value.number < 0 THEN <<"-">> \o NatToStr(-value.number)
            ELSE NatToStr(value.number)
      [] value.type = "float" ->
            (IF value.number < 0 THEN <<"-">> \o NatToStr(-value.number)
             ELSE NatToStr(value.number)) \o <<".", "0">>

\* chunk['FEN'].apply(parse_fen) and chunk['Evaluation'].apply(parse_evaluation)
FenFeatures(records) ==
    LET column == FenColumn([i \in DOMAIN records |-> records[i].FEN])
    IN  [i \in DOMAIN records |-> parse_fen(column[i])]

Evaluations(records) ==
    LET column == EvaluationColumn([i \in DOMAIN records |-> records[i].Evaluation])
    IN  [i \in DOMAIN records |-> parse_evaluation(Str(column[i]))]

\* pd.concat([fen_df, evaluations], axis=1)
ProcessedChunk(records) ==
    [i \in DOMAIN records |-> FenFeatures(records)[i].value \o <<Evaluations(records)[i].value>>]

\* every call truncates the file and writes the header
ToCsv_Truncating(file, rows, mode, header) ==
    File(<<HeaderLine>> \o [i \in DOMAIN rows |-> DataLine(rows[i])])

\* DataFrame.to_csv(output_file, index=False, mode=mode, header=header)
ToCsv(file, rows, mode, header) ==
    File((IF mode = "w" THEN <<>> ELSE file.rows)
         \o (IF header THEN <<HeaderLine>> ELSE <<>>)
         \o [i \in DOMAIN rows |-> DataLine(rows[i])])

PipelineInit ==
    /\ pipe_pc = "start"
    /\ source \in {NoFile} \cup {File(records) : records \in InputRecords}
    /\ chunk_size \in ChunkSizes
    /\ destination \in {NoFile, StaleFile}
    /\ first_chunk = TRUE
    /\ consumed = 0
    /\ chunk_index = 0
    /\ chunk = <<>>
    /\ processed_chunk = <<>>

PipelineIdle ==
    /\ pipe_pc = "idle"
    /\ source = NoFile
    /\ chunk_size = 1
    /\ destination = NoFile
    /\ first_chunk = TRUE
    /\ consumed = 0
    /\ chunk_index = 0
    /\ chunk = <<>>
    /\ processed_chunk = <<>>

\* first_chunk = True and pd.read_csv(input_file, chunksize=chunk_size): a
\* missing file raises out of the function
OpenReader ==
    /\ pipe_pc = "start"
    /\ first_chunk' = TRUE
    /\ pipe_pc' = IF source.exists THEN "read" ELSE "aborted"
    /\ UNCHANGED <<source, chunk_size, destination, consumed, chunk_index, chunk,
                   processed_chunk, balanceVars, parserVars, decoderVars>>

\* what the chunk reader can hand to the for statement after n records: the
\* next records, or the end of the iteration; for a CSV without records the
\* reader ends at once or hands one empty chunk first, depending on the parser
ReaderOutcomes(records, n, size) ==
    IF n < Len(records)
    THEN {[stop |-> FALSE,
           chunk |-> SubSeq(records, n + 1,
                            IF n + size < Len(records) THEN n + size ELSE Len(records))]}
    ELSE IF records = <<>>
    THEN {[stop |-> TRUE, chunk |-> <<>>], [stop |-> FALSE, chunk |-> <<>>]}
    ELSE {[stop |-> TRUE, chunk |-> <<>>]}

\* the for statement asks the reader for the next chunk
ReadChunk ==
    /\ pipe_pc = "read"
    /\ \E handed \in ReaderOutcomes(source.rows, consumed, chunk_size) :
           IF handed.stop
           THEN /\ pipe_pc' = "done"
                /\ UNCHANGED <<chunk, consumed>>
           ELSE /\ chunk' = handed.chunk
                /\ consumed' = consumed + Len(handed.chunk)
                /\ pipe_pc' = "transform"
    /\ UNCHANGED <<source, chunk_size, destination, first_chunk, chunk_index,
                   processed_chunk, balanceVars, parserVars, decoderVars>>

\* the two apply calls, the concat and the assignment of the 74 column
\* names: an exception out of parse_fen ends the run, and so does the
\* assignment for a chunk without rows (its frame has one column)
TransformChunk ==
    /\ pipe_pc = "transform"
    /\ IF chunk = <<>> \/ \E i \in DOMAIN chunk : FenFeatures(chunk)[i].raised # "none"
       THEN /\ pipe_pc' = "aborted"
            /\ UNCHANGED processed_chunk
       ELSE /\ processed_chunk' = ProcessedChunk(chunk)
            /\ pipe_pc' = "flush"
    /\ UNCHANGED <<source, chunk_size, destination, first_chunk, consumed, chunk_index,
                   chunk, balanceVars, parserVars, decoderVars>>

\* to_csv with mode 'w' and the header for the first chunk, mode 'a' after it
FlushChunk ==
    /\ pipe_pc = "flush"
    /\ IF first_chunk
       THEN /\ destination' = ToCsv(destination, processed_chunk, "w", TRUE)
            /\ first_chunk' = FALSE
       ELSE /\ destination' = ToCsv(destination, processed_chunk, "a", FALSE)
            /\ UNCHANGED first_chunk
    /\ chunk_index' = chunk_index + 1
    /\ pipe_pc' = "read"
    /\ UNCHANGED <<source, chunk_size, consumed, chunk, processed_chunk,
                   balanceVars, parserVars, decoderVars>>

-----------------------------------------------------------------------------
(* Specifications: the balancing scripts, each parser called on its own,    *)
(* and the pipeline                                                         *)

Init == BalanceInit /\ ParserIdle /\ DecoderIdle /\ PipelineIdle

Next ==
    \/ LoadData
    \/ FilterByMove
    \/ SeparateCheckmates
    \/ FilterExtreme
    \/ BalancePrimary
    \/ BalanceBins
    \/ Normalize
    \/ Save

Spec == Init /\ [][Next]_vars

InitParser == ParserInit /\ BalanceIdle /\ DecoderIdle /\ PipelineIdle
SpecParser == InitParser /\ [][ParseEvaluation]_vars

InitDecoder == DecoderInit /\ BalanceIdle /\ ParserIdle /\ PipelineIdle
SpecDecoder == InitDecoder /\ [][ParseFen]_vars

InitPipeline == PipelineInit /\ BalanceIdle /\ ParserIdle /\ DecoderIdle

NextPipeline ==
    \/ OpenReader
    \/ ReadChunk
    \/ TransformChunk
    \/ FlushChunk

SpecPipeline == InitPipeline /\ [][NextPipeline]_vars

-----------------------------------------------------------------------------
(* Properties of the balancing scripts *)

Sides == {0, 1}
Outcomes == {"white_winning", "black_winning", "neutral"}
Outcome(evaluation) ==
    IF evaluation > 0 THEN "white_winning"
    ELSE IF evaluation < 0 THEN "black_winning" ELSE "neutral"

\* number of rows of a (side, outcome) group in a table
GroupCount(table, side, outcome) ==
    Cardinality({i \in DOMAIN table :
        table[i].is_white_to_move = side /\ Outcome(table[i].evaluation) = outcome})

\* the smallest row count among the non-empty groups of a non-empty table
SmallestGroup(table) ==
    SetMin({GroupCount(table, s, o) : s \in Sides, o \in Outcomes} \ {0})

\* C1: once Category Balancing has run, every (side, outcome) group that is
\* non-empty among the filtered centipawn rows has exactly m rows in the
\* category-balanced set, m the smallest count among the non-empty groups,
\* and no group has more than m rows.
C1_CategoryBalanced ==
    pc = "balance_bins" =>
        \A s \in Sides, o \in Outcomes :
            /\ GroupCount(df_centipawns, s, o) > 0 =>
                   GroupCount(df_balanced_primary, s, o) = SmallestGroup(df_centipawns)
            /\ GroupCount(df_balanced_primary, s, o) <= SmallestGroup(df_centipawns)

\* a run in which a group larger than the smallest one was downsampled
C1_Witness ==
    /\ pc = "balance_bins"
    /\ \E s \in Sides, o \in Outcomes :
           GroupCount(df_centipawns, s, o) > SmallestGroup(df_centipawns)

\* the states in which the Bin Balancer has produced its output
BinsBalanced == pc \in {"normalize", "save"}

\* bin index of an evaluation: floor(evaluation / width) - floor(observed_min / width)
BinIndex(evaluation, lowest, width) == (evaluation \div width) - (lowest \div width)

RowsOfBin(table, b, lowest, width) ==
    Cardinality({i \in DOMAIN table : BinIndex(table[i].evaluation, lowest, width) = b})

BinIndices(table, lowest, width) ==
    {BinIndex(table[i].evaluation, lowest, width) : i \in DOMAIN table}

Least(a, b) == IF a < b THEN a ELSE b

\* C2: the output of the Bin Balancer holds exactly min(c(b), target) rows of
\* every bin b that holds c(b) > 0 rows of the category-balanced set.
C2_BinBalanced ==
    BinsBalanced =>
        LET lowest == SeqMin(df_balanced_primary)
        IN  \A b \in BinIndices(df_balanced_primary, lowest, eval_bin_size) :
                RowsOfBin(df_final_balanced, b, lowest, eval_bin_size)
                    = Least(RowsOfBin(df_balanced_primary, b, lowest, eval_bin_size),
                            min_positions_per_eval_bin)

\* the states in which the Bin Balancer has computed edges and assigned bins
BinsAssigned == bins # <<>>

\* C3: every row of the category-balanced set is assigned a bin index, the
\* rows with the lowest evaluation are in bin 0 and the rows with the highest
\* evaluation are in the last bin.
C3_BinTiling ==
    BinsAssigned =>
        LET lowest == SeqMin(df_balanced_primary)
            highest == SeqMax(df_balanced_primary)
        IN  \A i \in DOMAIN df_balanced_primary :
                LET r == df_balanced_primary[i]
                IN  /\ r.eval_bin # NaN
                    /\ r.evaluation = lowest => r.eval_bin = Bin(0)
                    /\ r.evaluation = highest =>
                           r.eval_bin = Bin(BinIndex(highest, lowest, eval_bin_size))

\* the six groups of the rows left by the filters all hold a row
AllGroupsPresent(table) ==
    \A s \in Sides, o \in Outcomes : GroupCount(table, s, o) > 0

\* C4: when one of the six (side, outcome) groups is empty after the filters,
\* the run stops at Category Balancing and writes no output file.
C4_EmptyCategory ==
    (pc \notin {"start", "filter_move", "separate", "cap", "balance_primary"}
        /\ df_centipawns # <<>> /\ ~AllGroupsPresent(df_centipawns))
    => (pc = "exit" /\ df_balanced_primary = <<>> /\ ~output_file.exists)

Degenerate(table) == table # <<>> /\ SeqMin(table) = SeqMax(table)

Normalizing == variant = "normalize" /\ pc \in {"save", "done"}

\* C5 as stated: the Normalizer fails on a final table whose rows all have
\* the same evaluation; no evaluation_normalized column is emitted and no
\* output file is written.
C5_DegenerateRangeFails ==
    (Normalizing /\ Degenerate(df_final_balanced)) =>
        /\ \A i \in DOMAIN df_final_balanced :
               "evaluation_normalized" \notin DOMAIN df_final_balanced[i]
        /\ ~output_file.exists

\* C5, as the code has it: on a final table whose rows all have the same
\* evaluation the Normalizer does not fail; every row gets evaluation_normalized
\* = -1 and the table is written.
C5_DegenerateRangeMapsToMinusOne ==
    (Normalizing /\ Degenerate(df_final_balanced)) =>
        /\ \A i \in DOMAIN df_final_balanced :
               /\ "evaluation_normalized" \in DOMAIN df_final_balanced[i]
               /\ df_final_balanced[i].evaluation_normalized = FromInt(-1)
        /\ pc = "done" => output_file = File(df_final_balanced)

C5_Witness ==
    /\ Normalizing /\ Degenerate(df_final_balanced)
    /\ pc = "done" /\ output_file.exists /\ Len(output_file.rows) = 2
    /\ \A i \in DOMAIN output_file.rows :
           output_file.rows[i].evaluation_normalized = FromInt(-1)

Magnitude(n) == IF n < 0 THEN -n ELSE n
Largest(a, b) == IF a > b THEN a ELSE b

\* the rounding tolerance of the transform, 2^-50 = 2^10 * Base^-4
Tolerance == [neg |-> FALSE, m |-> <<2 ^ 10>>, e |-> -4]

\* y is within Tolerance * (1 + 2 * max(|lo|, |hi|) / (hi - lo)) of
\* -1 + 2 * (x - lo) / (hi - lo); both sides multiplied by hi - lo and
\* compared exactly
NearFormula(y, x, lo, hi) ==
    FLeq(FAbs(ExactAdd(ExactMul(y, FromInt(hi - lo)), FromInt(lo + hi - 2 * x))),
         ExactMul(Tolerance,
                  FromInt((hi - lo) + 2 * Largest(Magnitude(lo), Magnitude(hi)))))

\* rows with a smaller evaluation have a smaller evaluation_normalized, rows
\* with the same evaluation the same
SameOrder(table) ==
    \A i, j \in DOMAIN table :
        /\ table[i].evaluation < table[j].evaluation =>
               FLess(table[i].evaluation_normalized, table[j].evaluation_normalized)
        /\ table[i].evaluation = table[j].evaluation =>
               table[i].evaluation_normalized = table[j].evaluation_normalized

\* C6 as stated: on a final table with observed_min < observed_max the rows
\* holding the minimum get exactly -1, the rows holding the maximum exactly +1,
\* every other row a value strictly between, in the order of the evaluations.
C6_NormalizedExactly ==
    (Normalizing /\ ~Degenerate(df_final_balanced)) =>
        LET lo == SeqMin(df_final_balanced)
            hi == SeqMax(df_final_balanced)
        IN  /\ \A i \in DOMAIN df_final_balanced :
                   LET x == df_final_balanced[i].evaluation
                       y == df_final_balanced[i].evaluation_normalized
                   IN  /\ x = lo => y = FromInt(-1)
                       /\ x = hi => y = FromInt(1)
                       /\ (lo < x /\ x < hi) => (FLess(FromInt(-1), y) /\ FLess(y, FromInt(1)))
            /\ SameOrder(df_final_balanced)

\* C6, as the code has it: evaluation_normalized is the float64 result of
\* evaluation * scale + offset fitted on the bounds of the final table; it is
\* within the rounding tolerance of -1 + 2 * (evaluation - min) / (max - min),
\* so -1 and +1 are met only up to that tolerance, and the order of the
\* evaluations is kept.
C6_NormalizedWithinTolerance ==
    (Normalizing /\ ~Degenerate(df_final_balanced)) =>
        /\ \A i \in DOMAIN df_final_balanced :
               NearFormula(df_final_balanced[i].evaluation_normalized,
                           df_final_balanced[i].evaluation,
                           SeqMin(df_final_balanced), SeqMax(df_final_balanced))
        /\ SameOrder(df_final_balanced)

\* a written table whose bounds are not those of the input and whose
\* highest row is normalized to a value other than +1
C6_Witness ==
    /\ Normalizing /\ pc = "done" /\ ~Degenerate(df_final_balanced)
    /\ SeqMax(df_final_balanced) < SeqMax(input_file.rows)
    /\ \E i \in DOMAIN output_file.rows :
           /\ output_file.rows[i].evaluation = SeqMax(df_final_balanced)
           /\ output_file.rows[i].evaluation_normalized # FromInt(1)
           /\ NearFormula(output_file.rows[i].evaluation_normalized,
                          output_file.rows[i].evaluation,
                          SeqMin(df_final_balanced), SeqMax(df_final_balanced))

\* the input columns of a row
InputRow(r) == [c \in InputColumns |-> r[c]]

\* the columns a variant writes
OutputColumns(v) ==
    IF v = "normalize" THEN InputColumns \cup {"evaluation_normalized"} ELSE InputColumns

\* C7: the rows written are rows of the input with every input column
\* unchanged, no input row more than once (a sub-multiset of the input); they
\* carry no win_loss_category or eval_bin column, and the normalizing variant
\* adds evaluation_normalized only.
C7_SelectionOnly ==
    output_file.exists =>
        /\ \A i \in DOMAIN output_file.rows :
               DOMAIN output_file.rows[i] = OutputColumns(variant)
        /\ \E f \in [DOMAIN output_file.rows -> DOMAIN input_file.rows] :
               /\ \A i, j \in DOMAIN f : i # j => f[i] # f[j]
               /\ \A i \in DOMAIN f : InputRow(output_file.rows[i]) = input_file.rows[f[i]]

\* a written table after both balancing stages dropped rows
C7_Witness ==
    /\ pc = "done" /\ variant = "normalize" /\ output_file.exists
    /\ Len(df_balanced_primary) < Len(df_centipawns)
    /\ Len(output_file.rows) < Len(df_balanced_primary)
    /\ Len(output_file.rows) > 0

-----------------------------------------------------------------------------
(* Properties of parse_evaluation and parse_fen *)

DecimalDigits == {"0", "1", "2", "3", "4", "5", "6", "7", "8", "9"}
Signs == {"+", "-"}
Marker == "#"

AllDigits(str) == str # <<>> /\ \A i \in DOMAIN str : str[i] \in DecimalDigits

\* an optionally-signed decimal integer
IsDecimalInteger(token) ==
    \/ AllDigits(token)
    \/ token # <<>> /\ Head(token) \in Signs /\ AllDigits(Tail(token))

\* a checkmate token: the marker, a sign and a distance-to-mate count
IsCheckmateToken(token) ==
    /\ Len(token) >= 3
    /\ token[1] = Marker /\ token[2] \in Signs
    /\ AllDigits(SubSeq(token, 3, Len(token)))

DigitNumber(c) ==
    CASE c = "0" -> 0 [] c = "1" -> 1 [] c = "2" -> 2 [] c = "3" -> 3 [] c = "4" -> 4
      [] c = "5" -> 5 [] c = "6" -> 6 [] c = "7" -> 7 [] c = "8" -> 8 [] c = "9" -> 9

RECURSIVE DecimalNumber(_)
\* the number a string of digits denotes
DecimalNumber(str) ==
    IF str = <<>> THEN 0
    ELSE 10 * DecimalNumber(SubSeq(str, 1, Len(str) - 1)) + DigitNumber(str[Len(str)])

\* the integer an optionally-signed decimal integer denotes
IntegerOf(token) ==
    IF Head(token) = "-" THEN -DecimalNumber(Tail(token))
    ELSE IF Head(token) = "+" THEN DecimalNumber(Tail(token))
    ELSE DecimalNumber(token)

\* C8: an optionally-signed decimal integer token yields that integer; a
\* checkmate token yields +20000 with a positive sign and -20000 with a
\* negative sign, whatever the distance after the sign.
C8_WellFormedTokens ==
    eval_pc = "returned" =>
        /\ IsDecimalInteger(eval_string) =>
               eval_result.raised = "none" /\ eval_result.value = IntegerOf(eval_string)
        /\ IsCheckmateToken(eval_string) =>
               /\ eval_result.raised = "none"
               /\ eval_result.value = IF eval_string[2] = "+" THEN 20000 ELSE -20000

\* a negative integer token parsed, here "-17"
C8_Witness ==
    /\ eval_pc = "returned"
    /\ eval_string = <<"-", "1", "7">>
    /\ eval_result.value = -17

\* the token without the blanks around it
Trimmed(token) ==
    IF \A i \in DOMAIN token : token[i] = " " THEN <<>>
    ELSE SubSeq(token, SetMin({i \in DOMAIN token : token[i] # " "}),
                       SetMax({i \in DOMAIN token : token[i] # " "}))

\* C9: a token that, blanks around it aside, is neither an optionally-signed
\* decimal integer nor a checkmate token (marker, mandatory sign, numeric
\* count) yields 0 and no exception.
C9_NeitherGrammarYieldsZero ==
    (eval_pc = "returned"
        /\ ~IsDecimalInteger(Trimmed(eval_string))
        /\ ~IsCheckmateToken(Trimmed(eval_string)))
    => (eval_result.raised = "none" /\ eval_result.value = 0)

Zeros(n) == [i \in 1..n |-> 0]

-----------------------------------------------------------------------------
(* Properties of process_chess_data *)

\* the vector of a description: of its board, or the default for an invalid
\* or empty description
Decode(description) ==
    IF description = EmptyFen THEN Zeros(73) ELSE parse_fen(description).value

\* the evaluation of a token as written in the record
Parse(token) == parse_evaluation(token).value

\* the row of a record: decode(description) followed by parse(token)
RowOf(record) == Decode(record.FEN) \o <<Parse(record.Evaluation)>>

\* the data rows of a file, in order
DataRows(file) ==
    LET lines == SelectSeq(file.rows, LAMBDA line : ~line.header)
    IN  [i \in DOMAIN lines |-> lines[i].values]

\* C11: for an input of N >= 1 records a run completes, and the output then
\* holds exactly N data rows, the i-th being decode(description_i) followed
\* by parse(token_i); a record that fails to decode or parse does not abort
\* the run or change another row.
C11_OneRowPerRecord ==
    (source.exists /\ Len(source.rows) >= 1) =>
        /\ pipe_pc # "aborted"
        /\ pipe_pc = "done" =>
               DataRows(destination) = [i \in DOMAIN source.rows |-> RowOf(source.rows[i])]

\* the records of chunk j for a chunk size
ChunkOf(records, j, size) ==
    SubSeq(records, (j - 1) * size + 1,
           IF j * size < Len(records) THEN j * size ELSE Len(records))

\* the transformed rows of the first k chunks, in input order
FlushedRows(records, k, size) ==
    Concat([j \in 1..k |-> ProcessedChunk(ChunkOf(records, j, size))])

\* C12: in every state of a run the destination holds nothing written by the
\* run, or the header once as its first line followed by the transformed rows
\* of the chunks flushed so far, in input order; a chunk is read only when
\* every chunk before it is flushed.
C12_AppendOnlySingleHeader ==
    pipe_pc # "idle" =>
        /\ chunk_index = 0 => destination \in {NoFile, StaleFile}
        /\ chunk_index >= 1 =>
               /\ destination.exists
               /\ destination.rows[1].header
               /\ destination.rows[1].values = OUTPUT_COLUMNS
               /\ \A i \in 2..Len(destination.rows) : ~destination.rows[i].header
               /\ DataRows(destination) = FlushedRows(source.rows, chunk_index, chunk_size)
        /\ pipe_pc \in {"transform", "flush"} =>
               /\ chunk = ChunkOf(source.rows, chunk_index + 1, chunk_size)
               /\ consumed - Len(chunk) =
                      IF chunk_index = 0 THEN 0 ELSE Len(DataRows(destination))
        /\ (pipe_pc \in {"read", "done"} /\ chunk_index >= 1) =>
               Len(DataRows(destination)) = consumed

\* a run that aborts in its second chunk after the first chunk of two rows
\* was flushed
C12_Witness ==
    /\ pipe_pc = "aborted"
    /\ chunk_index = 1
    /\ Len(destination.rows) = 3
    /\ destination.rows[1] = HeaderLine

-----------------------------------------------------------------------------
(* Determinism, idempotence, filters and fatal conditions of the balancers *)

\* the draw of n rows every downsampling call makes: the rows at the first n
\* positions of the seed-42 permutation of the group's length, a function of
\* the group's rows and n only
SeededDraw(rows, n) == [i \in 1..n |-> rows[Permutation42(Len(rows))[i] + 1]]

DrawIfLarger(rows, n) == IF Len(rows) > n THEN SeededDraw(rows, n) ELSE rows

\* the rows of a (side, outcome) group, in table order
GroupRows(table, key) ==
    SelectSeq(table, LAMBDA r : r.is_white_to_move = key[1] /\ Outcome(r.evaluation) = key[2])

\* Category Balancing as a function of the filtered rows
ExpectedPrimary(table) ==
    Concat([k \in 1..Len(GroupKeys) |->
               DrawIfLarger(GroupRows(table, GroupKeys[k]), SmallestGroup(table))])

\* Bin Balancing as a function of the category-balanced rows, the bin width
\* and the target
ExpectedFinal(table, width, target) ==
    LET binned == Binned(table, BinEdges(SeqMin(table), SeqMax(table), width))
        index == ValueCountsIndex(binned)
    IN  Concat([k \in 1..Len(index) |->
                   DrawIfLarger(SelectSeq(table,
                                          LAMBDA r : Cut(r.evaluation,
                                                         BinEdges(SeqMin(table), SeqMax(table), width))
                                                     = Bin(index[k])),
                                target)])

\* the rows a run writes, as a function of the input table and the
\* configuration
ExpectedOutput(table, v, lo, hi, cap, width, target) ==
    ExpectedFinal(
        ExpectedPrimary(
            SelectSeq(table, LAMBDA r : /\ lo <= r.fullmove_counter /\ r.fullmove_counter <= hi
                                        /\ r.evaluation \notin {20000, -20000}
                                        /\ v = "normalize" =>
                                               (-cap <= r.evaluation /\ r.evaluation <= cap))),
        width, target)

Rebalanced(table) ==
    BalancedPrimary(Categorized(table), MinGroupLoop(Grouped(Categorized(table)), Inf))

\* every non-empty (side, outcome) group has the same size
AlreadyBalanced(table) ==
    \A s \in Sides, o \in Outcomes : GroupCount(table, s, o) \in {0, SmallestGroup(table)}

Occurrences(table, row) == Cardinality({i \in DOMAIN table : table[i] = row})

\* the two tables hold the same rows, each as many times
SameRows(a, b) ==
    \A row \in {a[i] : i \in DOMAIN a} \cup {b[i] : i \in DOMAIN b} :
        Occurrences(a, row) = Occurrences(b, row)

\* C14: Category Balancing of a filtered set whose non-empty groups already
\* have one size returns the rows of that set, none removed and none altered,
\* and Category Balancing of its own result returns that result.
C14_Idempotent ==
    pc = "balance_bins" =>
        /\ Rebalanced(df_balanced_primary) = df_balanced_primary
        /\ AlreadyBalanced(df_centipawns) =>
               SameRows(df_balanced_primary, DropColumn(df_centipawns, "win_loss_category"))

\* an already balanced set of several groups whose rows are not in group
\* order: the step returns its rows regrouped
C14_Witness ==
    /\ pc = "balance_bins"
    /\ AlreadyBalanced(df_centipawns)
    /\ Len(df_centipawns) > SmallestGroup(df_centipawns)
    /\ df_balanced_primary # DropColumn(df_centipawns, "win_loss_category")

\* C15: every row of a written output has an evaluation other than the two
\* sentinels and a fullmove_counter within [min_move, max_move], both bounds
\* included, and in the capping variant an evaluation within [-cap, cap],
\* both bounds included.
C15_WrittenRowsPassedFilters ==
    output_file.exists =>
        \A i \in DOMAIN output_file.rows :
            LET row == output_file.rows[i]
            IN  /\ row.evaluation # 20000 /\ row.evaluation # -20000
                /\ min_move <= row.fullmove_counter /\ row.fullmove_counter <= max_move
                /\ variant = "normalize" =>
                       /\ -eval_capping_threshold <= row.evaluation
                       /\ row.evaluation <= eval_capping_threshold

\* a written output of the capping variant holding a row exactly at the cap
\* and at both move bounds, from an input of which a filter excluded a row
C15_Witness ==
    /\ pc = "done" /\ variant = "normalize" /\ output_file.exists
    /\ \E i \in DOMAIN output_file.rows :
           /\ output_file.rows[i].evaluation = -eval_capping_threshold
           /\ output_file.rows[i].fullmove_counter = min_move
           /\ output_file.rows[i].fullmove_counter = max_move
    /\ Len(df_centipawns) < Len(df)

Survivors(table) ==
    SelectSeq(table, LAMBDA r : /\ min_move <= r.fullmove_counter
                                /\ r.fullmove_counter <= max_move)

Centipawns(table) == SelectSeq(table, LAMBDA r : r.evaluation \notin {20000, -20000})

Capped(table) ==
    SelectSeq(table, LAMBDA r : /\ -eval_capping_threshold <= r.evaluation
                                /\ r.evaluation <= eval_capping_threshold)

\* the input cannot be read, or no row survives the move-range filter, the
\* sentinel split or (capping variant) the magnitude cap
Fatal ==
    \/ ~input_file.exists
    \/ Survivors(input_file.rows) = <<>>
    \/ Centipawns(Survivors(input_file.rows)) = <<>>
    \/ variant = "normalize" /\ Capped(Centipawns(Survivors(input_file.rows))) = <<>>

\* C16: under a fatal condition the run never reaches a balancing stage and
\* never creates or writes the output file; a run that returned early has
\* written nothing; the output file is written at most once, and only by a
\* run that completed every stage, as the final balanced table.
C16_FatalLeavesOutputUntouched ==
    /\ Fatal => /\ pc \in {"start", "filter_move", "separate", "cap", "exit"}
                /\ writes = 0 /\ output_file = NoFile
    /\ pc = "exit" => writes = 0 /\ output_file = NoFile
    /\ writes <= 1
    /\ writes = 1 => pc = "done" /\ output_file = File(df_final_balanced)
    /\ pc # "done" => writes = 0

\* a run of the capping variant that returned because no centipawn row was
\* within the cap, its output file absent
C16_Witness ==
    /\ pc = "exit" /\ variant = "normalize"
    /\ Len(df_filtered) > Len(df_checkmates)
    /\ df_centipawns = <<>>
    /\ Fatal
    /\ output_file = NoFile /\ writes = 0

-----------------------------------------------------------------------------
(* The sentinels of the Evaluation Parser *)

\* checkmate notation read loosely: the marker followed by a sign
IsCheckmateNotation(token) ==
    Len(token) >= 2 /\ token[1] = Marker /\ token[2] \in Signs

\* C17: the parser returns +20000 or -20000 only for a token in checkmate
\* notation, and never for an optionally-signed decimal integer token.
C17_SentinelsReserved ==
    eval_pc = "returned" =>
        /\ eval_result.value \in {20000, -20000} => IsCheckmateNotation(Trimmed(eval_string))
        /\ IsDecimalInteger(Trimmed(eval_string)) => eval_result.value \notin {20000, -20000}

====
